---- MODULE Spec2Model ----
(***************************************************************************)
(* PAP (Program Analysis Pipelines): the pipeline server.                  *)
(*                                                                         *)
(* The store is the SQLite schema of pap-server/src/queries.rs (tables     *)
(* pipelines, jobs, steps, objects, global_errors); the operations are RPC *)
(* handlers of pap-server/src/server.rs and the background engine task     *)
(* PipelineServer::execute, one atomic action per awaited store call.      *)
(***************************************************************************)
EXTENDS Integers, Sequences, FiniteSets, TLC

\* ------------------------------------------------------------------ bounds

\* Number of pipeline rows ever inserted (pipelines.id AUTOINCREMENT values used).
MaxPipelines == 1
\* Number of step rows ever inserted (steps.id AUTOINCREMENT values used).
MaxStepRows == 3
\* Number of monitor lines the fuzz loop logs before it only polls.
MaxTicks == 1
\* Pipeline rows and step rows ever inserted when clients submit one
\* pipeline after the other (SerialSpec).
MaxSerialPipelines == 2
MaxSerialStepRows == 4
\* Pipeline rows and step rows ever inserted when clients submit pipelines
\* whose engines run side by side (ConcurrentSpec).
MaxConcurrentPipelines == 2
MaxConcurrentStepRows == 2
\* Testcases ever added to one SqlCorpus (CorpusSpec).
MaxTestcases == 3
\* Keys and values of the object store (ObjectSpec).
MaxKey == 2
MaxValue == 2
\* log() calls each helper thread of a step makes (LogSpec).
MaxLogCalls == 2

\* --------------------------------------------------------------- constants

\* pap_api::ExecutionStatus
ExecutionStatus == {"Pending", "Running", "Completed", "Failed", "Cancelled"}

Terminal == {"Completed", "Failed", "Cancelled"}

\* The names builtin_executors() registers.
Registry == {"hello", "icicle-fuzzer"}

\* Step configurations (pap_config::Step: call and the keys of args).
HelloStep == [call |-> "hello", args |-> {"name"}]
HelloNoName == [call |-> "hello", args |-> {}]
FuzzStep == [call |-> "icicle-fuzzer", args |-> {"project", "function", "harness"}]
NonesuchStep == [call |-> "nonesuch", args |-> {}]

\* The submissions clients send: Config.jobs, a sequence of jobs, each its
\* sequence of steps.
Configs ==
  { << <<HelloStep>> >>,
    << <<HelloNoName>> >>,
    << <<FuzzStep>> >>,
    << <<HelloNoName, HelloStep>>, <<HelloStep>> >>,
    << <<HelloStep, HelloStep>>, <<HelloStep>> >>,
    << <<FuzzStep>>, <<HelloStep>> >>,
    << <<NonesuchStep>> >>,
    << <<HelloStep>>, <<NonesuchStep>> >> }

\* Error messages (anyhow::Error::to_string of what the engine propagates).
ErrMissingName == "missing name argument"
ErrExecutorNotFound == "step executor not found"
ErrPipelineNotFound == "Resource not found: Pipeline"
ErrJobNotFound == "Resource not found: Job"
\* A failed store call (sqlx::Error other than RowNotFound).
ErrStore == "error returned from database"

StepErrors == {ErrMissingName, ErrExecutorNotFound}

\* The submissions of SerialSpec.
SerialConfigs ==
  { << <<HelloNoName, HelloStep>>, <<HelloStep>> >>,
    << <<HelloStep>> >> }

\* Object store inputs: namespaces, keys and values of put_object/get_object.
Namespaces == {"corpus", "solutions"}
Keys == 0..(MaxKey - 1)
Values == 1..MaxValue

\* The helper threads of a step that logs concurrently, and what each logs.
Threads == {"a", "b"}

\* --------------------------------------------------------------- variables

VARIABLES
  pipelines,      \* table pipelines: id -> [config, execution_status]
  jobs,           \* table jobs: id -> [pipeline_id, name, status]
  steps,          \* table steps: id -> [job_id, pipeline_id, call, args, status, log_data]
  global_errors,  \* table global_errors: sequence of [pipeline_id, error_message]
  seq,            \* sqlite_sequence: last AUTOINCREMENT id of pipelines, jobs, steps
  foreign_keys,   \* PRAGMA foreign_keys of the connections: "on", "off", or "unset"
                  \* while no statement has depended on it yet
  task,           \* the spawned engine task of each pipeline id (handles)
  reply,          \* what the last submit_pipeline call returned
  objects,        \* table objects: set of rows [namespace, key, value]
  fetched,        \* what the last get_object call returned
  issued,         \* history: per successful submit_pipeline the id it returned and
                  \* the pipeline ids present in the table before it
  deleted,        \* history: the rows committed delete_pipeline calls removed
  polled,         \* history: a row was Cancelled when the running is_cancelled() began
  logged,         \* history: step id -> the messages passed to log(), and whether
                  \* execute_step has stored the buffer
  started,        \* history: step id -> how often the engine set the row Running
  log_buffer,     \* StepContext.log_buffer of a step that logs from helper threads
  logger,         \* the helper threads of that step: where each is in log()
  corpus,         \* a SqlCorpus: [cached_ids, disabled_ids, testcases]
  added,          \* history: the ids add() and add_disabled() returned, in order
  cancelWhen,     \* history: when the first cancel_pipeline(id) hit the row
  touched,        \* history: a cancel_job or delete_pipeline hit the pipeline
  runsAfter       \* history: steps set Running after that first cancel_pipeline

vars == <<pipelines, jobs, steps, global_errors, seq, foreign_keys, task, reply,
          objects, fetched, issued, deleted, polled, logged, started, log_buffer, logger,
          corpus, added,
          cancelWhen, touched, runsAfter>>

store == <<pipelines, jobs, steps, global_errors, seq>>
history == <<cancelWhen, touched, runsAfter>>
objvars == <<objects, fetched>>
logvars == <<log_buffer, logger>>
corpusvars == <<corpus, added>>
aside == <<objvars, issued, deleted, polled, logged, started, logvars, corpusvars>>

PipelineIds ==
  1..(CHOOSE m \in {MaxPipelines, MaxSerialPipelines, MaxConcurrentPipelines} :
        \A n \in {MaxPipelines, MaxSerialPipelines, MaxConcurrentPipelines} : n <= m)

\* ----------------------------------------------------------------- helpers

RECURSIVE SumLen(_)
SumLen(ss) == IF ss = <<>> THEN 0 ELSE Len(Head(ss)) + SumLen(Tail(ss))

RECURSIVE SortedSeq(_)
\* The ids of a set in ascending order (ORDER BY id ASC).
SortedSeq(S) ==
  IF S = {} THEN <<>>
  ELSE LET m == CHOOSE x \in S : \A y \in S : x <= y
       IN <<m>> \o SortedSeq(S \ {m})

Remove(f, D) == [i \in DOMAIN f \ D |-> f[i]]

JobsOf(p) == {j \in DOMAIN jobs : jobs[j].pipeline_id = p}
StepsOfJob(j) == {s \in DOMAIN steps : steps[s].job_id = j}
StepsOfPipeline(p) == {s \in DOMAIN steps : steps[s].pipeline_id = p}

\* ------------------------------------------------------------ store writes

\* UPDATE pipelines SET execution_status = ? WHERE id = ?
set_pipeline_status(P, id, status) ==
  [i \in DOMAIN P |-> IF i = id THEN [P[i] EXCEPT !.execution_status = status] ELSE P[i]]

\* UPDATE jobs SET status = ? WHERE id = ?
set_job_status(J, id, status) ==
  [i \in DOMAIN J |-> IF i = id THEN [J[i] EXCEPT !.status = status] ELSE J[i]]

\* UPDATE steps SET status = ? WHERE id = ?
set_step_status(S, id, status) ==
  [i \in DOMAIN S |-> IF i = id THEN [S[i] EXCEPT !.status = status] ELSE S[i]]

\* The BLOB column steps.log_data: NULL, or the bytes written to it.
Null == [null |-> TRUE, bytes |-> <<>>]
Blob(bytes) == [null |-> FALSE, bytes |-> bytes]

\* UPDATE steps SET log_data = ? WHERE id = ?
set_step_log(S, id, log_data) ==
  [i \in DOMAIN S |-> IF i = id THEN [S[i] EXCEPT !.log_data = Blob(log_data)] ELSE S[i]]

\* -------------------------------------------------------------------- Init

NoTask == [pc |-> "none", jobs |-> <<>>, ji |-> 0, steps |-> <<>>, si |-> 0,
           result |-> "none", log |-> <<>>]

Init ==
  /\ pipelines = <<>>
  /\ jobs = <<>>
  /\ steps = <<>>
  /\ global_errors = <<>>
  /\ seq = [pipelines |-> 0, jobs |-> 0, steps |-> 0]
  /\ foreign_keys = "unset"
  /\ task = [p \in PipelineIds |-> NoTask]
  /\ reply = [kind |-> "None", id |-> 0, error |-> ""]
  /\ objects = {}
  /\ fetched = [kind |-> "None", value |-> 0]
  /\ issued = <<>>
  /\ deleted = [pipelines |-> {}, jobs |-> {}, steps |-> {}]
  /\ polled = [p \in PipelineIds |-> FALSE]
  /\ logged = <<>>
  /\ started = <<>>
  /\ log_buffer = <<>>
  /\ logger = [t \in Threads |-> [pc |-> "idle", calls |-> 0]]
  /\ corpus = [cached_ids |-> {}, disabled_ids |-> {}, testcases |-> <<>>]
  /\ added = <<>>
  /\ cancelWhen = [p \in PipelineIds |-> "never"]
  /\ touched = [p \in PipelineIds |-> FALSE]
  /\ runsAfter = [p \in PipelineIds |-> 0]

\* ------------------------------------------------------------- error kinds

\* impl From<anyhow::Error> for PapError: always Internal, whatever the
\* anyhow::Error wraps.
FromAnyhow(err) == "Internal"

\* impl From<sqlx::Error> for PapError
FromSqlx(err) == IF err = "RowNotFound" THEN "NotFound" ELSE "Database"

\* ------------------------------------------------------------ RPC handlers

\* Mutant of validate: only the steps of the first job are looked up.
validate_FirstJob(config) ==
  \A k \in 1..Len(config) : \A i \in 1..Len(config[k]) :
    k = 1 => config[k][i].call \in Registry

\* PipelineServer::validate: every step's call is in the registry.
validate(config) ==
  \A k \in 1..Len(config) : \A i \in 1..Len(config[k]) : config[k][i].call \in Registry

\* Mutant of NewPipelineId: a rowid without AUTOINCREMENT, one more than the
\* largest id in the table.
NewPipelineId_Rowid ==
  IF DOMAIN pipelines = {} THEN 1
  ELSE (CHOOSE m \in DOMAIN pipelines : \A i \in DOMAIN pipelines : i <= m) + 1

\* queries::setup_pipeline, the ids RETURNING id yields: the pipeline's, then
\* per job the job's and right after it one per step of that job.
NewPipelineId == seq.pipelines + 1
NewJobIds(config) == [k \in 1..Len(config) |-> seq.jobs + k]
StepBase(config, k) == seq.steps + SumLen(SubSeq(config, 1, k - 1))
NewStepIds(config) == (seq.steps + 1)..(seq.steps + SumLen(config))
JobIndexOf(config, id) ==
  CHOOSE k \in 1..Len(config) : id - StepBase(config, k) \in 1..Len(config[k])

\* Mutant of NewPipelineRows: the row is persisted with the status the
\* returned value carries.
NewPipelineRows_Running(config) ==
  NewPipelineId :> [config |-> config, execution_status |-> "Running"]

\* The rows one setup_pipeline transaction inserts; status columns take the
\* schema default 'Pending', log_data the default NULL.
NewPipelineRows(config) ==
  NewPipelineId :> [config |-> config, execution_status |-> "Pending"]

NewJobRows(config) ==
  [j \in {NewJobIds(config)[k] : k \in 1..Len(config)} |->
     [pipeline_id |-> NewPipelineId, name |-> config[j - seq.jobs], status |-> "Pending"]]

NewStepRows(config) ==
  [s \in NewStepIds(config) |->
     LET k == JobIndexOf(config, s)
         c == config[k][s - StepBase(config, k)]
     IN [job_id |-> NewJobIds(config)[k], pipeline_id |-> NewPipelineId,
         call |-> c.call, args |-> c.args, status |-> "Pending", log_data |-> Null]]

\* queries.rs:342-348  the PipelineStatus setup_pipeline returns.
setup_pipeline_returns(config) ==
  [id |-> NewPipelineId, config |-> config, jobs |-> NewJobIds(config),
   status |-> "Running", error |-> "None"]

\* The place of each INSERT in the transaction of setup_pipeline: the
\* pipeline's first, then each job's followed by those of its steps.
JobInsert(config, k) == 1 + k + SumLen(SubSeq(config, 1, k - 1))
StepInsert(config, id) ==
  JobInsert(config, JobIndexOf(config, id)) + (id - StepBase(config, JobIndexOf(config, id)))
Inserts(config) == 1 + Len(config) + SumLen(config)

\* What the connection of the transaction sees when its n-th INSERT fails:
\* the rows of the inserts before it.
setup_pipeline_partial(config, n) ==
  [pipelines |-> IF n > 1 THEN pipelines @@ NewPipelineRows(config) ELSE pipelines,
   jobs |-> jobs @@ [j \in {i \in DOMAIN NewJobRows(config) :
                              JobInsert(config, i - seq.jobs) < n} |-> NewJobRows(config)[j]],
   steps |-> steps @@ [s \in {i \in NewStepIds(config) : StepInsert(config, i) < n} |->
                         NewStepRows(config)[s]],
   seq |-> [pipelines |-> IF n > 1 THEN NewPipelineId ELSE seq.pipelines,
            jobs |-> seq.jobs + Cardinality({i \in DOMAIN NewJobRows(config) :
                                               JobInsert(config, i - seq.jobs) < n}),
            steps |-> seq.steps + Cardinality({i \in NewStepIds(config) :
                                                 StepInsert(config, i) < n})]]

\* Mutant of setup_pipeline_rollback: PipelineServer::setup_pipeline
\* (server.rs:42-82), whose inserts run outside a transaction and stay.
setup_pipeline_rollback_None(partial) == partial

\* The `?` leaves setup_pipeline with the transaction uncommitted; dropping
\* it rolls back every insert, sqlite_sequence included.
setup_pipeline_rollback(partial) ==
  [pipelines |-> pipelines, jobs |-> jobs, steps |-> steps, seq |-> seq]

\* PapApi::submit_pipeline when the n-th INSERT of setup_pipeline fails: the
\* error is returned, execute_background is not reached.
submit_pipeline_fails(config, n) ==
  /\ validate(config)
  /\ LET after == setup_pipeline_rollback(setup_pipeline_partial(config, n))
     IN /\ pipelines' = after.pipelines
        /\ jobs' = after.jobs
        /\ steps' = after.steps
        /\ seq' = after.seq
  /\ reply' = [kind |-> FromAnyhow(ErrStore), id |-> 0, error |-> ErrStore]
  /\ UNCHANGED <<aside, global_errors, foreign_keys, task, history>>

\* PapApi::submit_pipeline: validate, setup_pipeline, execute_background.
submit_pipeline(config) ==
  IF ~validate(config)
  THEN /\ reply' = [kind |-> FromAnyhow(ErrExecutorNotFound), id |-> 0,
                      error |-> ErrExecutorNotFound]
       /\ UNCHANGED <<aside, store, foreign_keys, task, history>>
  ELSE /\ pipelines' = pipelines @@ NewPipelineRows(config)
       /\ jobs' = jobs @@ NewJobRows(config)
       /\ steps' = steps @@ NewStepRows(config)
       /\ seq' = [pipelines |-> NewPipelineId,
                  jobs |-> seq.jobs + Len(config),
                  steps |-> seq.steps + SumLen(config)]
       /\ task' = [task EXCEPT ![NewPipelineId] =
                     [NoTask EXCEPT !.pc = "start", !.jobs = setup_pipeline_returns(config).jobs]]
       /\ reply' = [kind |-> "Ok", id |-> setup_pipeline_returns(config).id, error |-> ""]
       /\ issued' = Append(issued, [id |-> NewPipelineId, present |-> DOMAIN pipelines])
       /\ UNCHANGED <<started, logvars, corpusvars, objvars, deleted, polled, logged, global_errors, foreign_keys, history>>

\* Mutant of cancel_pipeline_steps: only the steps that are Running.
cancel_pipeline_steps_Running(S, id) ==
  [s \in DOMAIN S |-> IF S[s].pipeline_id = id /\ S[s].status = "Running"
                      THEN [S[s] EXCEPT !.status = "Cancelled"] ELSE S[s]]

\* queries::cancel_pipeline, the three UPDATEs of its transaction.
cancel_pipeline_jobs(J, id) ==
  [j \in DOMAIN J |-> IF J[j].pipeline_id = id THEN [J[j] EXCEPT !.status = "Cancelled"] ELSE J[j]]

\* Mutant of cancel_pipeline_steps: an UPDATE without its WHERE clause.
cancel_pipeline_steps_All(S, id) ==
  [s \in DOMAIN S |-> [S[s] EXCEPT !.status = "Cancelled"]]

cancel_pipeline_steps(S, id) ==
  [s \in DOMAIN S |-> IF S[s].pipeline_id = id THEN [S[s] EXCEPT !.status = "Cancelled"] ELSE S[s]]

\* PapApi::cancel_pipeline
cancel_pipeline(id) ==
  /\ pipelines' = set_pipeline_status(pipelines, id, "Cancelled")
  /\ jobs' = cancel_pipeline_jobs(jobs, id)
  /\ steps' = cancel_pipeline_steps(steps, id)
  /\ cancelWhen' =
       IF id \in DOMAIN pipelines /\ cancelWhen[id] = "never"
       THEN [cancelWhen EXCEPT ![id] =
               IF pipelines[id].execution_status \in Terminal THEN "late"
               ELSE IF \E s \in StepsOfPipeline(id) : steps[s].status = "Running"
                    THEN "running" ELSE "early"]
       ELSE cancelWhen
  /\ UNCHANGED <<aside, global_errors, seq, foreign_keys, task, reply, touched, runsAfter>>

\* PapApi::cancel_job: UPDATE jobs SET status = 'Cancelled' WHERE id = ?
cancel_job(id) ==
  /\ jobs' = set_job_status(jobs, id, "Cancelled")
  /\ touched' = IF id \in DOMAIN jobs
                THEN [touched EXCEPT ![jobs[id].pipeline_id] = TRUE] ELSE touched
  /\ UNCHANGED <<aside, pipelines, steps, global_errors, seq, foreign_keys, task, reply,
                 cancelWhen, runsAfter>>

\* The schema declares FOREIGN KEY(pipeline_id) REFERENCES pipelines(id);
\* whether SQLite enforces it is the connection's foreign_keys pragma, which
\* the server leaves at the driver's default. It is one value for the whole
\* run: the model fixes it at the first statement whose outcome depends on it.
ForeignKeys == IF foreign_keys = "unset" THEN {"on", "off"} ELSE {foreign_keys}

\* queries::delete_pipeline: DELETE FROM pipelines violates the foreign key
\* of a global_errors row that references the pipeline.
delete_pipeline_violates(id) ==
  /\ id \in DOMAIN pipelines
  /\ \E e \in 1..Len(global_errors) : global_errors[e].pipeline_id = id

\* Mutant of delete_pipeline_steps: the steps are left in the table.
delete_pipeline_steps_Kept(id) == {}

\* DELETE FROM steps WHERE job_id IN (SELECT id FROM jobs WHERE pipeline_id = ?)
delete_pipeline_steps(id) == {s \in DOMAIN steps : steps[s].job_id \in JobsOf(id)}

\* Mutant of delete_pipeline_objects: the objects go with the pipeline.
delete_pipeline_objects_Cascade(id) == IF id \in DOMAIN pipelines THEN {} ELSE objects

\* queries::delete_pipeline, table objects after it: none of its three
\* DELETEs names the table.
delete_pipeline_objects(id) == objects

\* SelectSeq with the test written out.
RECURSIVE Without(_, _)
Without(errors, id) ==
  IF errors = <<>> THEN <<>>
  ELSE (IF Head(errors).pipeline_id = id THEN <<>> ELSE <<Head(errors)>>)
         \o Without(Tail(errors), id)

\* Mutant of delete_pipeline_errors: the pipeline's error rows go with it.
delete_pipeline_errors_Cascade(id) == Without(global_errors, id)

\* queries::delete_pipeline, table global_errors after it: none of its
\* three DELETEs names the table.
delete_pipeline_errors(id) == global_errors

\* PapApi::delete_pipeline: the transaction commits, or rolls back on the
\* violation.
delete_pipeline(id) ==
  /\ IF delete_pipeline_violates(id)
     THEN \E fk \in ForeignKeys : foreign_keys' = fk
     ELSE UNCHANGED foreign_keys
  /\ IF delete_pipeline_violates(id) /\ foreign_keys' = "on"
     THEN UNCHANGED <<pipelines, jobs, steps, global_errors, deleted>>
     ELSE /\ steps' = Remove(steps, delete_pipeline_steps(id))
          /\ global_errors' = delete_pipeline_errors(id)
          /\ jobs' = Remove(jobs, JobsOf(id))
          /\ pipelines' = Remove(pipelines, {id})
          /\ deleted' = [pipelines |-> deleted.pipelines \cup ({id} \cap DOMAIN pipelines),
                         jobs |-> deleted.jobs \cup JobsOf(id),
                         steps |-> deleted.steps \cup StepsOfPipeline(id)]
  /\ objects' = delete_pipeline_objects(id)
  /\ touched' = IF id \in DOMAIN pipelines THEN [touched EXCEPT ![id] = TRUE] ELSE touched
  /\ UNCHANGED <<started, logvars, corpusvars, fetched, issued, polled, logged, seq, task, reply,
                 cancelWhen, runsAfter>>

\* ------------------------------------------------------------ object store

\* The rows of table objects with this primary key (namespace, key).
ObjectRows(O, namespace, key) == {r \in O : r.namespace = namespace /\ r.key = key}

\* INSERT OR REPLACE INTO objects: the REPLACE conflict resolution deletes the
\* row that holds the primary key, then inserts.
put_object_rows(O, namespace, key, value) ==
  (O \ ObjectRows(O, namespace, key))
    \cup {[namespace |-> namespace, key |-> key, value |-> value]}

\* Mutant of put_object: a plain INSERT into a table without the primary key.
put_object_Insert(namespace, key, value) ==
  /\ objects' = objects \cup {[namespace |-> namespace, key |-> key, value |-> value]}
  /\ UNCHANGED <<started, logvars, corpusvars, store, foreign_keys, task, reply, fetched, issued, deleted, polled, logged,
                 history>>

\* PapApi::put_object
put_object(namespace, key, value) ==
  /\ objects' = put_object_rows(objects, namespace, key, value)
  /\ UNCHANGED <<started, logvars, corpusvars, store, foreign_keys, task, reply, fetched, issued, deleted, polled, logged,
                 history>>

\* queries::get_object: SELECT value ... fetch_optional, None is NotFound.
get_object(O, namespace, key) ==
  IF ObjectRows(O, namespace, key) = {}
  THEN [kind |-> "NotFound", value |-> 0]
  ELSE [kind |-> "Ok", value |-> (CHOOSE r \in ObjectRows(O, namespace, key) : TRUE).value]

\* PapApi::get_object
GetObject(namespace, key) ==
  /\ fetched' = get_object(objects, namespace, key)
  /\ UNCHANGED <<started, logvars, corpusvars, store, foreign_keys, task, reply, objects, issued, deleted, polled, logged,
                 history>>

\* ------------------------------------------------- the engine task (execute)

SetTask(p, t) == task' = [task EXCEPT ![p] = t]

CurJob(p) == task[p].jobs[task[p].ji]
CurStep(p) == task[p].steps[task[p].si]

\* Mutant of JobSteps: ORDER BY id DESC.
JobSteps_Desc(j) ==
  LET ids == SortedSeq(StepsOfJob(j))
  IN [i \in 1..Len(ids) |->
        [id |-> ids[Len(ids) + 1 - i], call |-> steps[ids[Len(ids) + 1 - i]].call,
         args |-> steps[ids[Len(ids) + 1 - i]].args]]

\* get_job_status(...).steps: SELECT ... FROM steps WHERE job_id = ? ORDER BY id ASC
JobSteps(j) ==
  LET ids == SortedSeq(StepsOfJob(j))
  IN [i \in 1..Len(ids) |->
        [id |-> ids[i], call |-> steps[ids[i]].call, args |-> steps[ids[i]].args]]

\* The `?` on a failed store read: execute returns Err(e) to execute_blocking.
Raise(t, e) == [t EXCEPT !.pc = "store_error", !.result = e]

\* The end of one iteration of `for job_id in &pipeline.jobs`.
NextJob(t) ==
  [t EXCEPT !.ji = t.ji + 1,
            !.pc = IF t.ji + 1 > Len(t.jobs) THEN "pipeline_final" ELSE "check_pipeline"]

\* server.rs:103  set_pipeline_status(Running)
Start(p) ==
  /\ task[p].pc = "start"
  /\ pipelines' = set_pipeline_status(pipelines, p, "Running")
  /\ SetTask(p, [task[p] EXCEPT !.ji = 1,
                   !.pc = IF task[p].jobs = <<>> THEN "pipeline_final" ELSE "check_pipeline"])
  /\ UNCHANGED <<aside, jobs, steps, global_errors, seq, foreign_keys, reply, history>>

\* server.rs:107-110  re-read the pipeline; return Ok(()) when Cancelled
CheckPipeline(p) ==
  /\ task[p].pc = "check_pipeline"
  /\ SetTask(p, IF p \notin DOMAIN pipelines THEN Raise(task[p], ErrPipelineNotFound)
                ELSE IF pipelines[p].execution_status = "Cancelled"
                     THEN [task[p] EXCEPT !.pc = "done"]
                     ELSE [task[p] EXCEPT !.pc = "read_job"])
  /\ UNCHANGED <<aside, store, foreign_keys, reply, history>>

\* server.rs:112  let job_status = get_job_status(job_id)
ReadJob(p) ==
  /\ task[p].pc = "read_job"
  /\ SetTask(p, IF CurJob(p) \notin DOMAIN jobs THEN Raise(task[p], ErrJobNotFound)
                ELSE [task[p] EXCEPT !.pc = "set_job_running", !.steps = JobSteps(CurJob(p))])
  /\ UNCHANGED <<aside, store, foreign_keys, reply, history>>

\* server.rs:113  set_job_status(Running)
SetJobRunning(p) ==
  /\ task[p].pc = "set_job_running"
  /\ jobs' = set_job_status(jobs, CurJob(p), "Running")
  /\ SetTask(p, [task[p] EXCEPT !.si = 1,
                   !.pc = IF task[p].steps = <<>> THEN "job_final" ELSE "check_job"])
  /\ UNCHANGED <<aside, pipelines, steps, global_errors, seq, foreign_keys, reply, history>>

\* server.rs:117-120  re-read the job; break when Cancelled
CheckJob(p) ==
  /\ task[p].pc = "check_job"
  /\ SetTask(p, IF CurJob(p) \notin DOMAIN jobs THEN Raise(task[p], ErrJobNotFound)
                ELSE IF jobs[CurJob(p)].status = "Cancelled"
                     THEN [task[p] EXCEPT !.pc = "job_final"]
                     ELSE [task[p] EXCEPT !.pc = "set_step_running"])
  /\ UNCHANGED <<aside, store, foreign_keys, reply, history>>

\* server.rs:122  set_step_status(Running)
SetStepRunning(p) ==
  /\ task[p].pc = "set_step_running"
  /\ steps' = set_step_status(steps, CurStep(p).id, "Running")
  /\ SetTask(p, [task[p] EXCEPT !.pc = "exec", !.result = "none", !.log = <<>>])
  /\ runsAfter' = IF cancelWhen[p] # "never" /\ CurStep(p).id \in DOMAIN steps
                  THEN [runsAfter EXCEPT ![p] = @ + 1] ELSE runsAfter
  /\ started' = [s \in DOMAIN started \cup {CurStep(p).id} |->
                   IF s = CurStep(p).id
                   THEN (IF s \in DOMAIN started THEN started[s] ELSE 0) + 1
                   ELSE started[s]]
  /\ UNCHANGED <<objvars, issued, deleted, polled, logged, logvars, corpusvars, pipelines, jobs, global_errors, seq, foreign_keys, reply, cancelWhen, touched>>

\* StepContext::log: the message, then the newline.
LogLine(log, message) == log \o <<message, "\n">>

\* The executor returned: execute_step goes on to set_step_log.
Returned(t, result) == [t EXCEPT !.pc = "set_step_log", !.result = result]

\* fuzz(): is_cancelled() was false, fuzz_loop_for runs and the monitor logs.
FuzzOn(t) == [t EXCEPT !.pc = "exec", !.log = LogLine(t.log, "tick")]
CanFuzzOn(t) == Len(t.log) < 2 * MaxTicks

\* History of StepContext::log: the step's record, and the record after
\* one more message.
LogOf(id) == IF id \in DOMAIN logged THEN logged[id] ELSE [messages |-> <<>>, stored |-> FALSE]
Started(id) == [i \in DOMAIN logged \cup {id} |-> IF i = id THEN LogOf(id) ELSE logged[i]]
Said(id, message) ==
  [i \in DOMAIN logged \cup {id} |->
     IF i = id THEN [LogOf(id) EXCEPT !.messages = Append(@, message)] ELSE logged[i]]

\* One of the step's row, its job's row and its pipeline's row is Cancelled.
AnyCancelled(id) ==
  /\ id \in DOMAIN steps
  /\ \/ steps[id].status = "Cancelled"
     \/ /\ steps[id].job_id \in DOMAIN jobs
        /\ jobs[steps[id].job_id].status = "Cancelled"
     \/ /\ steps[id].pipeline_id \in DOMAIN pipelines
        /\ pipelines[steps[id].pipeline_id].execution_status = "Cancelled"

\* SqlCorpus::add during a round of the fuzz loop: the testcase is written
\* under the corpus namespace with key make_key(testcases.len()).
CorpusAdd(t) == put_object_rows(objects, "corpus", Len(t.log) \div 2, 1)

\* server.rs:85-92  execute_step: the registry lookup and executor.execute().
\* HelloStepExecutor::execute runs to its end without a store call; the fuzz
\* loop of IcicleFuzzerExecutor polls is_cancelled(), whose first query
\* (the step's own status) is taken here.
Execute(p) ==
  /\ task[p].pc = "exec"
  /\ LET t == task[p]
         s == CurStep(p)
     IN IF s.call \notin Registry
        THEN /\ SetTask(p, [t EXCEPT !.pc = "set_step_failed", !.result = ErrExecutorNotFound])
             /\ UNCHANGED <<polled, logged, objects>>
        ELSE IF s.call = "hello"
        THEN /\ SetTask(p, IF "name" \in s.args
                           THEN Returned([t EXCEPT !.log = LogLine(t.log, "Hello, world!")], "ok")
                           ELSE Returned(t, ErrMissingName))
             /\ logged' = IF "name" \in s.args THEN Said(s.id, "Hello, world!") ELSE Started(s.id)
             /\ UNCHANGED <<polled, objects>>
        ELSE /\ polled' = [polled EXCEPT ![p] = AnyCancelled(s.id)]
             /\ IF s.id \notin DOMAIN steps
                THEN /\ CanFuzzOn(t) /\ SetTask(p, FuzzOn(t))
                     /\ logged' = Said(s.id, "tick")
                     /\ objects' = CorpusAdd(t)
                ELSE /\ SetTask(p, IF steps[s.id].status = "Cancelled" THEN Returned(t, "ok")
                                   ELSE [t EXCEPT !.pc = "poll_job"])
                     /\ logged' = Started(s.id)
                     /\ UNCHANGED objects
  /\ UNCHANGED <<started, logvars, corpusvars, fetched, issued, deleted, store, foreign_keys, reply, history>>

\* queries.rs:438-447  is_step_cancelled, the job's status
PollJob(p) ==
  /\ task[p].pc = "poll_job"
  /\ LET t == task[p]
         s == CurStep(p)
     IN IF s.id \notin DOMAIN steps \/ steps[s.id].job_id \notin DOMAIN jobs
        THEN /\ CanFuzzOn(t) /\ SetTask(p, FuzzOn(t))
             /\ logged' = Said(s.id, "tick")
             /\ objects' = CorpusAdd(t)
        ELSE /\ SetTask(p, IF jobs[steps[s.id].job_id].status = "Cancelled" THEN Returned(t, "ok")
                           ELSE [t EXCEPT !.pc = "poll_pipeline"])
             /\ UNCHANGED <<logged, objects>>
  /\ UNCHANGED <<started, logvars, corpusvars, fetched, issued, deleted, polled, store, foreign_keys, reply,
                 history>>

\* Mutant of PollPipeline: the pipeline's status is not looked at.
PollPipeline_Skipped(p) ==
  /\ task[p].pc = "poll_pipeline"
  /\ CanFuzzOn(task[p]) /\ SetTask(p, FuzzOn(task[p]))
  /\ logged' = Said(CurStep(p).id, "tick")
  /\ objects' = CorpusAdd(task[p])
  /\ UNCHANGED <<started, logvars, corpusvars, fetched, issued, deleted, polled, store, foreign_keys, reply,
                 history>>

\* queries.rs:450-457  is_step_cancelled, the pipeline's status
PollPipeline(p) ==
  /\ task[p].pc = "poll_pipeline"
  /\ LET t == task[p]
         s == CurStep(p)
     IN IF /\ s.id \in DOMAIN steps
           /\ steps[s.id].pipeline_id \in DOMAIN pipelines
           /\ pipelines[steps[s.id].pipeline_id].execution_status = "Cancelled"
        THEN SetTask(p, Returned(t, "ok")) /\ UNCHANGED <<logged, objects>>
        ELSE /\ CanFuzzOn(t) /\ SetTask(p, FuzzOn(t))
             /\ logged' = Said(s.id, "tick")
             /\ objects' = CorpusAdd(t)
  /\ UNCHANGED <<started, logvars, corpusvars, fetched, issued, deleted, polled, store, foreign_keys, reply,
                 history>>

\* Mutant of SetStepLog: the buffer is taken before the executor ran, the
\* empty buffer is stored.
SetStepLog_Early(p) ==
  /\ task[p].pc = "set_step_log"
  /\ steps' = set_step_log(steps, CurStep(p).id, <<>>)
  /\ SetTask(p, [task[p] EXCEPT
                   !.pc = IF task[p].result = "ok" THEN "set_step_completed"
                          ELSE "set_step_failed"])
  /\ logged' = [logged EXCEPT ![CurStep(p).id].stored = TRUE]
  /\ UNCHANGED <<started, logvars, corpusvars, objvars, issued, deleted, polled, pipelines, jobs, global_errors, seq,
                 foreign_keys, reply, history>>

\* server.rs:95  set_step_log(step.id, context.take_log())
SetStepLog(p) ==
  /\ task[p].pc = "set_step_log"
  /\ steps' = set_step_log(steps, CurStep(p).id, task[p].log)
  /\ SetTask(p, [task[p] EXCEPT
                   !.pc = IF task[p].result = "ok" THEN "set_step_completed"
                          ELSE "set_step_failed"])
  /\ logged' = [logged EXCEPT ![CurStep(p).id].stored = TRUE]
  /\ UNCHANGED <<started, logvars, corpusvars, objvars, issued, deleted, polled, pipelines, jobs, global_errors, seq,
                 foreign_keys, reply, history>>

\* Mutant of SetStepCompleted: the loop goes on without the Completed write.
SetStepCompleted_Skipped(p) ==
  /\ task[p].pc = "set_step_completed"
  /\ SetTask(p, IF task[p].si + 1 > Len(task[p].steps)
                THEN [task[p] EXCEPT !.pc = "job_final"]
                ELSE [task[p] EXCEPT !.pc = "check_job", !.si = @ + 1])
  /\ UNCHANGED <<aside, pipelines, jobs, steps, global_errors, seq, foreign_keys, reply, history>>

\* server.rs:126  Ok(_) => set_step_status(Completed)
SetStepCompleted(p) ==
  /\ task[p].pc = "set_step_completed"
  /\ steps' = set_step_status(steps, CurStep(p).id, "Completed")
  /\ SetTask(p, IF task[p].si + 1 > Len(task[p].steps)
                THEN [task[p] EXCEPT !.pc = "job_final"]
                ELSE [task[p] EXCEPT !.pc = "check_job", !.si = @ + 1])
  /\ UNCHANGED <<aside, pipelines, jobs, global_errors, seq, foreign_keys, reply, history>>

\* Mutant of SetStepFailed: the Err arm writes Failed and goes on with the
\* next step instead of failing the job and returning.
SetStepFailed_Continue(p) ==
  /\ task[p].pc = "set_step_failed"
  /\ steps' = set_step_status(steps, CurStep(p).id, "Failed")
  /\ SetTask(p, IF task[p].si + 1 > Len(task[p].steps)
                THEN [task[p] EXCEPT !.pc = "job_final"]
                ELSE [task[p] EXCEPT !.pc = "check_job", !.si = @ + 1])
  /\ UNCHANGED <<aside, pipelines, jobs, global_errors, seq, foreign_keys, reply, history>>

\* Mutant of SetStepFailed: the Err arm writes Failed and runs the same
\* step again.
SetStepFailed_Retry(p) ==
  /\ task[p].pc = "set_step_failed"
  /\ steps' = set_step_status(steps, CurStep(p).id, "Failed")
  /\ SetTask(p, [task[p] EXCEPT !.pc = "set_step_running"])
  /\ UNCHANGED <<aside, pipelines, jobs, global_errors, seq, foreign_keys, reply, history>>

\* server.rs:130  Err(e) => set_step_status(Failed)
SetStepFailed(p) ==
  /\ task[p].pc = "set_step_failed"
  /\ steps' = set_step_status(steps, CurStep(p).id, "Failed")
  /\ SetTask(p, [task[p] EXCEPT !.pc = "set_job_failed"])
  /\ UNCHANGED <<aside, pipelines, jobs, global_errors, seq, foreign_keys, reply, history>>

\* Mutant of SetJobFailed: the job's Failed write is left out.
SetJobFailed_Skipped(p) ==
  /\ task[p].pc = "set_job_failed"
  /\ SetTask(p, [task[p] EXCEPT !.pc = "set_pipeline_failed"])
  /\ UNCHANGED <<aside, pipelines, jobs, steps, global_errors, seq, foreign_keys, reply, history>>

\* server.rs:132  set_job_status(Failed)
SetJobFailed(p) ==
  /\ task[p].pc = "set_job_failed"
  /\ jobs' = set_job_status(jobs, CurJob(p), "Failed")
  /\ SetTask(p, [task[p] EXCEPT !.pc = "set_pipeline_failed"])
  /\ UNCHANGED <<aside, pipelines, steps, global_errors, seq, foreign_keys, reply, history>>

\* server.rs:133-139  set_pipeline_status(Failed); return Err(e)
SetPipelineFailed(p) ==
  /\ task[p].pc = "set_pipeline_failed"
  /\ pipelines' = set_pipeline_status(pipelines, p, "Failed")
  /\ SetTask(p, [task[p] EXCEPT !.pc = "store_error"])
  /\ UNCHANGED <<aside, jobs, steps, global_errors, seq, foreign_keys, reply, history>>

\* server.rs:145-149  re-read the job after its step loop
JobFinal(p) ==
  /\ task[p].pc = "job_final"
  /\ SetTask(p, IF CurJob(p) \notin DOMAIN jobs THEN Raise(task[p], ErrJobNotFound)
                ELSE IF jobs[CurJob(p)].status # "Cancelled"
                     THEN [task[p] EXCEPT !.pc = "set_job_completed"]
                     ELSE NextJob(task[p]))
  /\ UNCHANGED <<aside, store, foreign_keys, reply, history>>

\* Mutant of SetJobCompleted: the job's Completed write is left out.
SetJobCompleted_Skipped(p) ==
  /\ task[p].pc = "set_job_completed"
  /\ SetTask(p, NextJob(task[p]))
  /\ UNCHANGED <<aside, pipelines, jobs, steps, global_errors, seq, foreign_keys, reply, history>>

\* server.rs:148  set_job_status(Completed)
SetJobCompleted(p) ==
  /\ task[p].pc = "set_job_completed"
  /\ jobs' = set_job_status(jobs, CurJob(p), "Completed")
  /\ SetTask(p, NextJob(task[p]))
  /\ UNCHANGED <<aside, pipelines, steps, global_errors, seq, foreign_keys, reply, history>>

\* server.rs:153-159  re-read the pipeline after all jobs
PipelineFinal(p) ==
  /\ task[p].pc = "pipeline_final"
  /\ SetTask(p, IF p \notin DOMAIN pipelines THEN Raise(task[p], ErrPipelineNotFound)
                ELSE IF pipelines[p].execution_status # "Cancelled"
                     THEN [task[p] EXCEPT !.pc = "set_pipeline_completed"]
                     ELSE [task[p] EXCEPT !.pc = "done"])
  /\ UNCHANGED <<aside, store, foreign_keys, reply, history>>

\* server.rs:158  set_pipeline_status(Completed)
SetPipelineCompleted(p) ==
  /\ task[p].pc = "set_pipeline_completed"
  /\ pipelines' = set_pipeline_status(pipelines, p, "Completed")
  /\ SetTask(p, [task[p] EXCEPT !.pc = "done"])
  /\ UNCHANGED <<aside, jobs, steps, global_errors, seq, foreign_keys, reply, history>>

\* Mutant of store_error_violates: the table has no foreign key.
store_error_violates_Never(id) == FALSE

\* queries::store_error: the INSERT INTO global_errors violates the foreign
\* key when the pipeline row is gone.
store_error_violates(id) == id \notin DOMAIN pipelines

\* Mutant of StoreError: store_error only inserts the global-error row.
StoreError_RowOnly(p) ==
  /\ task[p].pc = "store_error"
  /\ IF store_error_violates(p)
     THEN \E fk \in ForeignKeys : foreign_keys' = fk
     ELSE UNCHANGED foreign_keys
  /\ IF store_error_violates(p) /\ foreign_keys' = "on"
     THEN UNCHANGED global_errors
     ELSE global_errors' = Append(global_errors,
                                  [pipeline_id |-> p, error_message |-> task[p].result])
  /\ SetTask(p, [task[p] EXCEPT !.pc = "done"])
  /\ UNCHANGED <<aside, pipelines, jobs, steps, seq, reply, history>>

\* server.rs:165-171  execute_blocking: store_error(pipeline.id, e.to_string());
\* on the violation the transaction is dropped uncommitted.
StoreError(p) ==
  /\ task[p].pc = "store_error"
  /\ IF store_error_violates(p)
     THEN \E fk \in ForeignKeys : foreign_keys' = fk
     ELSE UNCHANGED foreign_keys
  /\ IF store_error_violates(p) /\ foreign_keys' = "on"
     THEN UNCHANGED <<pipelines, global_errors>>
     ELSE /\ pipelines' = set_pipeline_status(pipelines, p, "Failed")
          /\ global_errors' = Append(global_errors,
                                     [pipeline_id |-> p, error_message |-> task[p].result])
  /\ SetTask(p, [task[p] EXCEPT !.pc = "done"])
  /\ UNCHANGED <<aside, jobs, steps, seq, reply, history>>

\* ---------------------------------------------------------- failing store

\* The places of execute where the engine awaits a store call with `?`.
StoreCalls ==
  {"start", "check_pipeline", "read_job", "set_job_running", "check_job",
   "set_step_running", "set_step_completed", "set_step_failed", "set_job_failed",
   "set_pipeline_failed", "job_final", "set_job_completed", "pipeline_final",
   "set_pipeline_completed"}

\* Mutant of StoreFault: the failed call is ignored and the engine goes on
\* as if the step had completed.
StoreFault_Ignored(p) ==
  /\ task[p].pc = "set_step_log"
  /\ SetTask(p, [task[p] EXCEPT !.pc = "set_step_completed", !.result = ErrStore])
  /\ UNCHANGED <<aside, store, foreign_keys, reply, history>>

\* A store call of the engine fails and writes nothing. In execute the `?`
\* returns the error to execute_blocking; in execute_step (set_step_log,
\* server.rs:95) the `?` returns it to the Err arm of execute's match.
StoreFault(p) ==
  /\ task[p].pc \in StoreCalls \cup {"set_step_log"}
  /\ SetTask(p, IF task[p].pc = "set_step_log"
                THEN [task[p] EXCEPT !.pc = "set_step_failed", !.result = ErrStore]
                ELSE Raise(task[p], ErrStore))
  /\ UNCHANGED <<aside, store, foreign_keys, reply, history>>

\* server.rs:166-170  store_error fails: the message goes to stderr only.
StoreErrorFault(p) ==
  /\ task[p].pc = "store_error"
  /\ SetTask(p, [task[p] EXCEPT !.pc = "done"])
  /\ UNCHANGED <<aside, store, foreign_keys, reply, history>>

\* ------------------------------------------------- logging from helper threads

\* step/mod.rs:47  the first statement of log(): lock, extend_from_slice, unlock
LogExtend(th) ==
  /\ logger[th].pc = "idle"
  /\ logger[th].calls < MaxLogCalls
  /\ log_buffer' = Append(log_buffer, th)
  /\ logger' = [logger EXCEPT ![th].pc = "newline"]
  /\ UNCHANGED <<store, foreign_keys, task, reply, objvars, issued, deleted, polled, logged,
                 started, corpusvars, history>>

\* step/mod.rs:48  the second statement of log(): lock, push(b'\n'), unlock
LogPush(th) ==
  /\ logger[th].pc = "newline"
  /\ log_buffer' = Append(log_buffer, "\n")
  /\ logger' = [logger EXCEPT ![th].pc = "idle", ![th].calls = @ + 1]
  /\ UNCHANGED <<store, foreign_keys, task, reply, objvars, issued, deleted, polled, logged,
                 started, corpusvars, history>>

\* ------------------------------------------------------------- SqlCorpus

\* A CorpusId is an index into testcases, counted from 0.
CorpusIds == 0..(MaxTestcases - 1)

\* SqlCorpus::count, count_disabled, count_all (usize arithmetic: the
\* difference is taken as an integer, an underflow shows as a negative).
count == Cardinality(corpus.cached_ids) - Cardinality(corpus.disabled_ids)
count_disabled == Cardinality(corpus.disabled_ids)
count_all == Cardinality(corpus.cached_ids)

\* SqlCorpus::get
get(id) ==
  IF id \notin corpus.cached_ids \/ id \in corpus.disabled_ids
  THEN [kind |-> "KeyNotFound", input |-> 0]
  ELSE [kind |-> "Ok", input |-> corpus.testcases[id + 1]]

\* sqlcorpus.rs:62-77  add: the id is testcases.len(); the bytes are written
\* under make_key(id), the testcase is pushed and the id cached. (A failed
\* write returns the error before anything is changed.)
add(input) ==
  LET id == Len(corpus.testcases)
  IN /\ id < MaxTestcases
     /\ objects' = put_object_rows(objects, "corpus", id, input)
     /\ corpus' = [corpus EXCEPT !.cached_ids = @ \cup {id},
                                 !.testcases = Append(@, input)]
     /\ added' = Append(added, id)
     /\ UNCHANGED <<store, foreign_keys, task, reply, fetched, issued, deleted, polled, logged,
                    started, logvars, history>>

\* sqlcorpus.rs:79-83  add_disabled: add, then the id joins disabled_ids.
add_disabled(input) ==
  LET id == Len(corpus.testcases)
  IN /\ id < MaxTestcases
     /\ objects' = put_object_rows(objects, "corpus", id, input)
     /\ corpus' = [cached_ids |-> corpus.cached_ids \cup {id},
                   disabled_ids |-> corpus.disabled_ids \cup {id},
                   testcases |-> Append(corpus.testcases, input)]
     /\ added' = Append(added, id)
     /\ UNCHANGED <<store, foreign_keys, task, reply, fetched, issued, deleted, polled, logged,
                    started, logvars, history>>

\* sqlcorpus.rs:85-105  replace: only for a cached id; the new bytes are
\* written and the testcase swapped in.
replace(id, input) ==
  /\ id \in corpus.cached_ids
  /\ objects' = put_object_rows(objects, "corpus", id, input)
  /\ corpus' = [corpus EXCEPT !.testcases[id + 1] = input]
  /\ UNCHANGED <<store, foreign_keys, task, reply, fetched, issued, deleted, polled, logged,
                 started, logvars, added, history>>

\* Mutant of remove: the id is left in disabled_ids.
remove_KeepDisabled(id) ==
  /\ id \in corpus.cached_ids
  /\ objects' = put_object_rows(objects, "corpus", id, 0)
  /\ corpus' = [corpus EXCEPT !.cached_ids = @ \ {id}]
  /\ UNCHANGED <<store, foreign_keys, task, reply, fetched, issued, deleted, polled, logged,
                 started, logvars, added, history>>

\* sqlcorpus.rs:107-121  remove: only for a cached id; empty bytes are
\* written under its key, the id leaves cached_ids and disabled_ids, and
\* testcases keeps its length.
remove(id) ==
  /\ id \in corpus.cached_ids
  /\ objects' = put_object_rows(objects, "corpus", id, 0)
  /\ corpus' = [corpus EXCEPT !.cached_ids = @ \ {id}, !.disabled_ids = @ \ {id}]
  /\ UNCHANGED <<store, foreign_keys, task, reply, fetched, issued, deleted, polled, logged,
                 started, logvars, added, history>>

\* ------------------------------------------------------------ specification

JobIds == 1..MaxStepRows
SerialJobIds == 1..MaxSerialStepRows

\* The engine task of pipeline p takes a step.
Engine(p) ==
  \/ Start(p) \/ CheckPipeline(p) \/ ReadJob(p) \/ SetJobRunning(p) \/ CheckJob(p)
  \/ SetStepRunning(p) \/ Execute(p) \/ PollJob(p) \/ PollPipeline(p) \/ SetStepLog(p)
  \/ SetStepCompleted(p) \/ SetStepFailed(p) \/ SetJobFailed(p) \/ SetPipelineFailed(p)
  \/ JobFinal(p) \/ SetJobCompleted(p) \/ PipelineFinal(p) \/ SetPipelineCompleted(p)
  \/ StoreError(p)

\* The store has ids left for the rows of this submission.
Admit(config, maxPipelines, maxStepRows) ==
  validate(config) => /\ seq.pipelines < maxPipelines
                      /\ seq.steps + SumLen(config) <= maxStepRows

Next ==
  \/ \E config \in Configs :
       Admit(config, MaxPipelines, MaxStepRows) /\ submit_pipeline(config)
  \/ \E id \in PipelineIds : cancel_pipeline(id)
  \/ \E id \in JobIds : cancel_job(id)
  \/ \E id \in PipelineIds : delete_pipeline(id)
  \/ \E p \in PipelineIds : Start(p)
  \/ \E p \in PipelineIds : CheckPipeline(p)
  \/ \E p \in PipelineIds : ReadJob(p)
  \/ \E p \in PipelineIds : SetJobRunning(p)
  \/ \E p \in PipelineIds : CheckJob(p)
  \/ \E p \in PipelineIds : SetStepRunning(p)
  \/ \E p \in PipelineIds : Execute(p)
  \/ \E p \in PipelineIds : PollJob(p)
  \/ \E p \in PipelineIds : PollPipeline(p)
  \/ \E p \in PipelineIds : SetStepLog(p)
  \/ \E p \in PipelineIds : SetStepCompleted(p)
  \/ \E p \in PipelineIds : SetStepFailed(p)
  \/ \E p \in PipelineIds : SetJobFailed(p)
  \/ \E p \in PipelineIds : SetPipelineFailed(p)
  \/ \E p \in PipelineIds : JobFinal(p)
  \/ \E p \in PipelineIds : SetJobCompleted(p)
  \/ \E p \in PipelineIds : PipelineFinal(p)
  \/ \E p \in PipelineIds : SetPipelineCompleted(p)
  \/ \E p \in PipelineIds : StoreError(p)

Spec == Init /\ [][Next]_vars

\* tokio::spawn: a spawned task that can run is eventually polled, and every
\* store call it awaits completes.
FairSpec == Spec /\ \A p \in PipelineIds : WF_vars(Engine(p))

\* No engine task is running: none was spawned, or each has returned.
Idle == \A p \in PipelineIds : task[p].pc \in {"none", "done"}

\* Clients that submit one pipeline after the other: the next one when the
\* engine task of the one before has returned.
SerialNext ==
  \/ \E config \in SerialConfigs :
       /\ Idle
       /\ Admit(config, MaxSerialPipelines, MaxSerialStepRows)
       /\ submit_pipeline(config)
  \/ \E id \in PipelineIds : cancel_pipeline(id)
  \/ \E id \in SerialJobIds : cancel_job(id)
  \/ \E id \in PipelineIds : delete_pipeline(id)
  \/ \E p \in PipelineIds : Start(p)
  \/ \E p \in PipelineIds : CheckPipeline(p)
  \/ \E p \in PipelineIds : ReadJob(p)
  \/ \E p \in PipelineIds : SetJobRunning(p)
  \/ \E p \in PipelineIds : CheckJob(p)
  \/ \E p \in PipelineIds : SetStepRunning(p)
  \/ \E p \in PipelineIds : Execute(p)
  \/ \E p \in PipelineIds : SetStepLog(p)
  \/ \E p \in PipelineIds : SetStepCompleted(p)
  \/ \E p \in PipelineIds : SetStepFailed(p)
  \/ \E p \in PipelineIds : SetJobFailed(p)
  \/ \E p \in PipelineIds : SetPipelineFailed(p)
  \/ \E p \in PipelineIds : JobFinal(p)
  \/ \E p \in PipelineIds : SetJobCompleted(p)
  \/ \E p \in PipelineIds : PipelineFinal(p)
  \/ \E p \in PipelineIds : SetPipelineCompleted(p)
  \/ \E p \in PipelineIds : StoreError(p)

SerialSpec == Init /\ [][SerialNext]_vars

\* Clients that submit pipelines whose engine tasks run side by side.
ConcurrentConfigs == { << <<HelloStep>> >>, << <<HelloNoName>> >> }
ConcurrentJobIds == 1..MaxConcurrentStepRows

ConcurrentNext ==
  \/ \E config \in ConcurrentConfigs :
       /\ Admit(config, MaxConcurrentPipelines, MaxConcurrentStepRows)
       /\ submit_pipeline(config)
  \/ \E id \in PipelineIds : cancel_pipeline(id)
  \/ \E id \in ConcurrentJobIds : cancel_job(id)
  \/ \E id \in PipelineIds : delete_pipeline(id)
  \/ \E p \in PipelineIds : Start(p)
  \/ \E p \in PipelineIds : CheckPipeline(p)
  \/ \E p \in PipelineIds : ReadJob(p)
  \/ \E p \in PipelineIds : SetJobRunning(p)
  \/ \E p \in PipelineIds : CheckJob(p)
  \/ \E p \in PipelineIds : SetStepRunning(p)
  \/ \E p \in PipelineIds : Execute(p)
  \/ \E p \in PipelineIds : SetStepLog(p)
  \/ \E p \in PipelineIds : SetStepCompleted(p)
  \/ \E p \in PipelineIds : SetStepFailed(p)
  \/ \E p \in PipelineIds : SetJobFailed(p)
  \/ \E p \in PipelineIds : SetPipelineFailed(p)
  \/ \E p \in PipelineIds : JobFinal(p)
  \/ \E p \in PipelineIds : SetJobCompleted(p)
  \/ \E p \in PipelineIds : PipelineFinal(p)
  \/ \E p \in PipelineIds : SetPipelineCompleted(p)
  \/ \E p \in PipelineIds : StoreError(p)

ConcurrentSpec == Init /\ [][ConcurrentNext]_vars

\* A fuzzer that works on one SqlCorpus.
CorpusNext ==
  \/ \E input \in Values : add(input)
  \/ \E input \in Values : add_disabled(input)
  \/ \E id \in CorpusIds : \E input \in Values : replace(id, input)
  \/ \E id \in CorpusIds : remove(id)

CorpusSpec == Init /\ [][CorpusNext]_vars

\* The store may fail any call: of the engine, and of setup_pipeline.
FaultNext ==
  \/ Next
  \/ \E p \in PipelineIds : StoreFault(p)
  \/ \E p \in PipelineIds : StoreErrorFault(p)
  \/ \E config \in Configs : \E n \in 1..Inserts(config) : submit_pipeline_fails(config, n)

FaultSpec == Init /\ [][FaultNext]_vars

\* The store may fail any call of the engine; every task that can run is
\* eventually polled.
EngineFaultNext ==
  \/ Next
  \/ \E p \in PipelineIds : StoreFault(p)
  \/ \E p \in PipelineIds : StoreErrorFault(p)

FairFaultSpec == Init /\ [][EngineFaultNext]_vars /\ \A p \in PipelineIds : WF_vars(Engine(p))

\* A step whose helper threads each log their own message.
LogNext ==
  \/ \E th \in Threads : LogExtend(th)
  \/ \E th \in Threads : LogPush(th)

LogSpec == Init /\ [][LogNext]_vars

\* Clients of the object store.
ObjectNext ==
  \/ \E namespace \in Namespaces, key \in Keys, value \in Values :
       put_object(namespace, key, value)
  \/ \E namespace \in Namespaces, key \in Keys : GetObject(namespace, key)

ObjectSpec == Init /\ [][ObjectNext]_vars

\* ------------------------------------------------------ observations (reads)

\* get_pipeline_status(...).jobs: SELECT id FROM jobs WHERE pipeline_id = ?,
\* a scan of the table in rowid order (jobs has no other index).
PipelineJobs(id) == SortedSeq(JobsOf(id))

\* Mutant of get_pipeline_status: error is filled from global_errors.
get_pipeline_status_WithError(id) ==
  IF id \in DOMAIN pipelines
  THEN [kind |-> "Ok", id |-> id, config |-> pipelines[id].config,
        status |-> pipelines[id].execution_status, jobs |-> PipelineJobs(id),
        error |-> IF \E e \in 1..Len(global_errors) : global_errors[e].pipeline_id = id
                  THEN "Some" ELSE "None"]
  ELSE [kind |-> "NotFound", id |-> id, config |-> <<>>, status |-> "", jobs |-> <<>>,
        error |-> "None"]

\* queries::get_pipeline_status: the row, or PapError::NotFound in an anyhow::Error.
get_pipeline_status(id) ==
  IF id \in DOMAIN pipelines
  THEN [kind |-> "Ok", id |-> id, config |-> pipelines[id].config,
        status |-> pipelines[id].execution_status, jobs |-> PipelineJobs(id),
        error |-> "None"]
  ELSE [kind |-> "NotFound", id |-> id, config |-> <<>>, status |-> "", jobs |-> <<>>,
        error |-> "None"]

\* queries::get_job_status: the row and its steps, or PapError::NotFound in
\* an anyhow::Error.
get_job_status(id) ==
  IF id \in DOMAIN jobs
  THEN [kind |-> "Ok", id |-> id, config |-> jobs[id].name, status |-> jobs[id].status,
        steps |-> JobSteps(id)]
  ELSE [kind |-> "NotFound", id |-> id, config |-> <<>>, status |-> "", steps |-> <<>>]

\* PapApi::get_pipeline and PapApi::get_job: Ok(queries::...(id).await?), the
\* `?` converts the anyhow::Error.
get_pipeline(id) ==
  LET r == get_pipeline_status(id)
  IN IF r.kind = "Ok" THEN r ELSE [r EXCEPT !.kind = FromAnyhow(r.kind)]

get_job(id) ==
  LET r == get_job_status(id)
  IN IF r.kind = "Ok" THEN r ELSE [r EXCEPT !.kind = FromAnyhow(r.kind)]

\* Mutant of get_step_log: a NULL log_data is a decode error.
get_step_log_Strict(id) ==
  IF id \notin DOMAIN steps THEN [kind |-> "NotFound", bytes |-> <<>>]
  ELSE IF steps[id].log_data.null THEN [kind |-> FromSqlx("ColumnDecode"), bytes |-> <<>>]
  ELSE [kind |-> "Ok", bytes |-> steps[id].log_data.bytes]

\* PapApi::get_step_log: query_scalar::<_, Vec<u8>> with fetch_optional on the
\* SqlitePool; no row is NotFound. log_data BLOB has no default, so it is NULL
\* until set_step_log; the SQLite driver reads the value's bytes, and a NULL
\* has none: it decodes as the empty Vec<u8>.
get_step_log(id) ==
  IF id \notin DOMAIN steps THEN [kind |-> "NotFound", bytes |-> <<>>]
  ELSE IF steps[id].log_data.null THEN [kind |-> "Ok", bytes |-> <<>>]
  ELSE [kind |-> "Ok", bytes |-> steps[id].log_data.bytes]

\* get_pipeline(id).status
Status(p) == pipelines[p].execution_status

\* A cancel_pipeline(p), cancel_job of one of its jobs or delete_pipeline(p)
\* has been issued.
Interfered(p) == cancelWhen[p] # "never" \/ touched[p]

\* The step executor of the engine's current step returned an error.
StepFailed(p) == task[p].result \in StepErrors

\* ------------------------------------------------------------------ claims

\* C1 (cancel dominance): a pipeline whose cancel_pipeline was committed
\* while its row was not yet terminal never shows Completed or Failed.
C1_CancelDominance ==
  \A p \in DOMAIN pipelines :
    cancelWhen[p] \in {"early", "running"} => Status(p) \notin {"Completed", "Failed"}

\* C2 (terminal stickiness): no step changes the status of a pipeline row
\* that is Completed, Failed or Cancelled.
C2_TerminalSticky ==
  [][\A p \in DOMAIN pipelines \cap DOMAIN pipelines' :
       Status(p) \in Terminal =>
         pipelines'[p].execution_status = pipelines[p].execution_status]_vars

\* C3 (Cancelled is sticky on job and step rows): no step changes a job row
\* or a step row from Cancelled to Completed or Failed.
C3_CancelledSticky ==
  [][/\ \A j \in DOMAIN jobs \cap DOMAIN jobs' :
          jobs[j].status = "Cancelled" => jobs'[j].status \notin {"Completed", "Failed"}
     /\ \A s \in DOMAIN steps \cap DOMAIN steps' :
          steps[s].status = "Cancelled" => steps'[s].status \notin {"Completed", "Failed"}]_vars

\* C4 (cancellation mid-flight): a pipeline of one job with one fuzz step,
\* cancelled by cancel_pipeline while that step was Running and not
\* otherwise touched, ends with pipeline, job and step all Cancelled.
C4_CancelMidFlight ==
  \A p \in DOMAIN pipelines :
    ( /\ pipelines[p].config = << <<FuzzStep>> >>
      /\ cancelWhen[p] = "running"
      /\ ~touched[p]
      /\ task[p].pc = "done" )
    => /\ Status(p) = "Cancelled"
       /\ \A j \in JobsOf(p) : jobs[j].status = "Cancelled"
       /\ \A s \in StepsOfPipeline(p) : steps[s].status = "Cancelled"

\* C5 (bounded overrun): after the first cancel_pipeline of a pipeline has
\* committed the engine sets at most one more of its steps to Running.
C5_BoundedOverrun == \A p \in PipelineIds : runsAfter[p] <= 1

\* The engine is on the failure path of server.rs:129-140 and 165-171.
FailurePath == {"set_step_log", "set_step_failed", "set_job_failed",
                "set_pipeline_failed", "store_error", "done"}

\* C6 (step failure is recorded at all three levels): once a step's
\* executor has returned an error the engine only walks the failure path,
\* and, when no cancel or delete was issued, it ends with that step Failed,
\* its job Failed, the pipeline Failed and a global-error row carrying the
\* step's error message.
C6_FailureRecorded ==
  \A p \in PipelineIds :
    /\ StepFailed(p) => task[p].pc \in FailurePath
    /\ (StepFailed(p) /\ task[p].pc = "done" /\ ~Interfered(p)) =>
         /\ p \in DOMAIN pipelines /\ Status(p) = "Failed"
         /\ CurJob(p) \in DOMAIN jobs /\ jobs[CurJob(p)].status = "Failed"
         /\ CurStep(p).id \in DOMAIN steps /\ steps[CurStep(p).id].status = "Failed"
         /\ \E e \in 1..Len(global_errors) :
              global_errors[e] = [pipeline_id |-> p, error_message |-> task[p].result]

\* C6 witness: an engine that ended after a step error, with no cancel or
\* delete issued.
C6_Witness ==
  \E p \in PipelineIds :
    StepFailed(p) /\ task[p].pc = "done" /\ ~Interfered(p) /\ Len(global_errors) = 1

\* The jobs declared after the engine's current job, and the steps declared
\* after its current step (the rest of the job and the steps of later jobs).
LaterJobs(p) == {task[p].jobs[k] : k \in (task[p].ji + 1)..Len(task[p].jobs)}
LaterSteps(p) ==
  {task[p].steps[i].id : i \in (task[p].si + 1)..Len(task[p].steps)}
    \cup {s \in DOMAIN steps : steps[s].job_id \in LaterJobs(p)}

\* No job row and no step row of pipeline p becomes Running in this step.
NoneSetRunning(p) ==
  /\ \A j \in DOMAIN jobs \cap DOMAIN jobs' :
       (jobs[j].pipeline_id = p /\ jobs[j].status # "Running") => jobs'[j].status # "Running"
  /\ \A s \in DOMAIN steps \cap DOMAIN steps' :
       (steps[s].pipeline_id = p /\ steps[s].status # "Running") => steps'[s].status # "Running"

\* C7 as stated (fail-fast, Pending forever): after a step returned an
\* error, no job or step of the pipeline is set to Running, and every
\* later job and step that is Pending stays Pending.
C7_PendingForever ==
  [][\A p \in PipelineIds : StepFailed(p) =>
       /\ NoneSetRunning(p)
       /\ \A j \in LaterJobs(p) \cap DOMAIN jobs \cap DOMAIN jobs' :
            jobs[j].status = "Pending" => jobs'[j].status = "Pending"
       /\ \A s \in LaterSteps(p) \cap DOMAIN steps \cap DOMAIN steps' :
            steps[s].status = "Pending" => steps'[s].status = "Pending"]_vars

\* C7 as amended (fail-fast): after a step returned an error, no job or
\* step of the pipeline is set to Running, and a later job or step that is
\* Pending stays Pending in every step of the engine; only a client's
\* cancel_pipeline or cancel_job changes it, to Cancelled.
C7_FailFast ==
  [][\A p \in PipelineIds : StepFailed(p) =>
       /\ NoneSetRunning(p)
       /\ \A j \in LaterJobs(p) \cap DOMAIN jobs \cap DOMAIN jobs' :
            jobs[j].status = "Pending" =>
              \/ jobs'[j].status = "Pending"
              \/ jobs'[j].status = "Cancelled" /\ task' = task
       /\ \A s \in LaterSteps(p) \cap DOMAIN steps \cap DOMAIN steps' :
            steps[s].status = "Pending" =>
              \/ steps'[s].status = "Pending"
              \/ steps'[s].status = "Cancelled" /\ task' = task]_vars

\* C7 witness: the engine ended after the first step of the first job
\* failed; the second step of that job and the second job are still Pending.
C7_Witness ==
  \E p \in PipelineIds :
    /\ StepFailed(p) /\ task[p].pc = "done"
    /\ LaterJobs(p) # {} /\ \A j \in LaterJobs(p) : j \in DOMAIN jobs /\ jobs[j].status = "Pending"
    /\ Cardinality(LaterSteps(p)) = 2
    /\ \A s \in LaterSteps(p) : s \in DOMAIN steps /\ steps[s].status = "Pending"

\* Every step of the submission is a hello step with its name argument.
AllSucceed(config) ==
  \A k \in 1..Len(config) : \A i \in 1..Len(config[k]) : config[k][i] = HelloStep

AllCompleted(p) ==
  /\ p \in DOMAIN pipelines /\ Status(p) = "Completed"
  /\ Cardinality(JobsOf(p)) = Len(pipelines[p].config)
  /\ \A j \in JobsOf(p) : jobs[j].status = "Completed"
  /\ Cardinality(StepsOfPipeline(p)) = SumLen(pipelines[p].config)
  /\ \A s \in StepsOfPipeline(p) : steps[s].status = "Completed"

\* C8 (happy path liveness): a submitted pipeline all of whose steps succeed
\* eventually is Completed with every job and every step Completed, unless
\* a cancel or delete is issued on it.
C8_HappyPath ==
  \A p \in PipelineIds :
    (p \in DOMAIN pipelines /\ AllSucceed(pipelines[p].config) /\ ~Interfered(p))
      ~> (AllCompleted(p) \/ Interfered(p))

\* C8 witness: a pipeline of two jobs and three steps, all Completed, that
\* no cancel or delete touched.
C8_Witness ==
  \E p \in PipelineIds :
    AllCompleted(p) /\ ~Interfered(p) /\ Len(pipelines[p].config) = 2 /\ task[p].pc = "done"

RunningSteps(p) == {s \in StepsOfPipeline(p) : steps[s].status = "Running"}

\* C9 (strict serial order): a pipeline never has two steps Running; when a
\* step becomes Running every step declared before it in its job is
\* Completed or Cancelled; when a job becomes Running every job declared
\* before it in the pipeline is Completed or Cancelled and none of their
\* steps is Running.
C9_SerialOrder ==
  [][\A p \in PipelineIds :
       /\ Cardinality(RunningSteps(p)) <= 1
       /\ Cardinality(RunningSteps(p))' <= 1
       /\ \A s \in DOMAIN steps \cap DOMAIN steps' :
            (steps[s].pipeline_id = p /\ steps[s].status # "Running"
               /\ steps'[s].status = "Running") =>
              \A r \in StepsOfJob(steps[s].job_id) :
                r < s => steps[r].status \in {"Completed", "Cancelled"}
       /\ \A j \in DOMAIN jobs \cap DOMAIN jobs' :
            (jobs[j].pipeline_id = p /\ jobs[j].status # "Running"
               /\ jobs'[j].status = "Running") =>
              \A i \in JobsOf(p) :
                i < j => /\ jobs[i].status \in {"Completed", "Cancelled"}
                         /\ \A r \in StepsOfJob(i) : steps[r].status # "Running"]_vars

\* C9 witness: the step of the second job is Running after both steps of
\* the first job were Completed.
C9_Witness ==
  \E p \in PipelineIds : \E i, j \in JobsOf(p) :
    /\ i < j
    /\ Cardinality(StepsOfJob(i)) = 2
    /\ \A r \in StepsOfJob(i) : steps[r].status = "Completed"
    /\ jobs[i].status = "Completed" /\ jobs[j].status = "Running"
    /\ \E s \in StepsOfJob(j) : steps[s].status = "Running"

HasUnregistered(config) ==
  \E k \in 1..Len(config) : \E i \in 1..Len(config[k]) : config[k][i].call \notin Registry

\* C10 (validation gate): a submit_pipeline of a submission with an
\* unregistered call returns an error, inserts no pipeline, job or step row
\* and spawns no engine task; a pipeline row is only ever inserted for a
\* submission all of whose calls are registered.
C10_ValidationGate ==
  [][/\ \A config \in Configs :
          (HasUnregistered(config) /\ submit_pipeline(config)) =>
            /\ UNCHANGED <<pipelines, jobs, steps, seq, task>>
            /\ reply'.kind \notin {"Ok", "None"}
     /\ \A p \in DOMAIN pipelines' \ DOMAIN pipelines :
          ~HasUnregistered(pipelines'[p].config)
     /\ \A s \in DOMAIN steps' \ DOMAIN steps : steps'[s].call \in Registry]_vars

\* C10 witness: a submission was rejected and the store is still empty, no
\* id was consumed and no engine task exists.
C10_Witness ==
  /\ reply.kind = "Internal"
  /\ DOMAIN pipelines = {} /\ DOMAIN jobs = {} /\ DOMAIN steps = {}
  /\ seq.pipelines = 0
  /\ \A p \in PipelineIds : task[p].pc = "none"

\* C11 (error kind of a rejected submission): a submit_pipeline of a
\* submission with an unregistered call returns an error of kind
\* Configuration.
C11_ConfigurationKind ==
  [][\A config \in Configs :
       (HasUnregistered(config) /\ submit_pipeline(config)) =>
         reply'.kind = "Configuration"]_vars

\* C12 (delete cascade): once a delete_pipeline(id) has committed,
\* get_pipeline(id), get_job of each of its jobs and get_step_log of each of
\* its steps fail, in every later state, whatever the engine task of the
\* pipeline writes afterwards.
C12_DeleteCascade ==
  /\ \A p \in deleted.pipelines : p \notin DOMAIN pipelines /\ get_pipeline(p).kind # "Ok"
  /\ \A j \in deleted.jobs : j \notin DOMAIN jobs /\ get_job(j).kind # "Ok"
  /\ \A s \in deleted.steps : s \notin DOMAIN steps /\ get_step_log(s).kind # "Ok"

\* C12 witness: the pipeline was deleted with its jobs and steps while its
\* engine task was running; the task then stored a step's log, missed a row
\* it went on to read, and ran store_error to its end.
C12_Witness ==
  \E p \in deleted.pipelines :
    /\ task[p].pc = "done"
    /\ task[p].result \in {ErrPipelineNotFound, ErrJobNotFound}
    /\ deleted.jobs # {}
    /\ \E s \in deleted.steps : s \in DOMAIN logged /\ logged[s].stored

\* C13 (NotFound on unknown ids): get_pipeline, get_job and get_step_log of
\* an id that is not in the store, and get_object of a missing
\* (namespace, key), each return an error of kind NotFound.
C13_NotFound ==
  /\ \A id \in PipelineIds \ DOMAIN pipelines : get_pipeline(id).kind = "NotFound"
  /\ \A id \in JobIds \ DOMAIN jobs : get_job(id).kind = "NotFound"
  /\ \A id \in JobIds \ DOMAIN steps : get_step_log(id).kind = "NotFound"
  /\ \A namespace \in Namespaces, key \in Keys :
       ObjectRows(objects, namespace, key) = {} =>
         get_object(objects, namespace, key).kind = "NotFound"

\* C14 (object round trip): right after put_object(ns, k, v) a
\* get_object(ns, k) returns v, the table holds exactly one entry for
\* (ns, k) and every other entry is as before; and a step that is no put to
\* (ns, k) leaves what get_object(ns, k) returns unchanged.
C14_RoundTrip ==
  [][\A namespace \in Namespaces, key \in Keys :
       /\ \A value \in Values :
            put_object(namespace, key, value) =>
              /\ get_object(objects', namespace, key) = [kind |-> "Ok", value |-> value]
              /\ Cardinality(ObjectRows(objects', namespace, key)) = 1
              /\ objects' \ ObjectRows(objects', namespace, key)
                   = objects \ ObjectRows(objects, namespace, key)
       /\ (~ \E value \in Values : put_object(namespace, key, value)) =>
            get_object(objects', namespace, key) = get_object(objects, namespace, key)]_vars

\* C14 witness: a get_object returned a value that a later put_object on
\* the same entry replaced, with every other entry present.
C14_Witness ==
  /\ fetched = [kind |-> "Ok", value |-> 1]
  /\ Cardinality(objects) = Cardinality(Namespaces) * MaxKey
  /\ \A r \in objects : r.value = 2

RECURSIVE Lines(_)
\* The bytes of the messages, each followed by a newline.
Lines(messages) ==
  IF messages = <<>> THEN <<>> ELSE <<Head(messages), "\n">> \o Lines(Tail(messages))

\* C15 (log durability): once execute_step has stored the buffer of a step
\* whose executor returned, get_step_log of that step, while its row
\* exists, returns the messages passed to log() during the step, in call
\* order, each followed by a newline.
C15_LogDurable ==
  \A s \in DOMAIN logged \cap DOMAIN steps :
    logged[s].stored =>
      get_step_log(s) = [kind |-> "Ok", bytes |-> Lines(logged[s].messages)]

\* C15 witness: the engine has ended; a fuzz step that logged and then saw
\* the cancellation has its log stored.
C15_Witness ==
  \E s \in DOMAIN logged \cap DOMAIN steps :
    /\ logged[s].stored /\ logged[s].messages = <<"tick">>
    /\ steps[s].call = "icicle-fuzzer"
    /\ task[steps[s].pipeline_id].pc = "done"

\* The step configurations get_job returns, in the order it returns them.
ReturnedSteps(j) ==
  [i \in 1..Len(get_job(j).steps) |->
     [call |-> get_job(j).steps[i].call, args |-> get_job(j).steps[i].args]]

C17_CancelJob ==
  [][\A id \in DOMAIN jobs :
       cancel_job(id) =>
         /\ jobs'[id].status = "Cancelled"
         /\ \A s \in StepsOfJob(id) : steps'[s].status = "Cancelled"
         /\ \A j \in DOMAIN jobs \ {id} : jobs'[j] = jobs[j]
         /\ \A s \in DOMAIN steps \ StepsOfJob(id) : steps'[s] = steps[s]
         /\ pipelines' = pipelines]_vars

\* C18 (cancel_pipeline): cancel_pipeline(id) sets the pipeline row, every
\* job row and every step row of pipeline id to Cancelled in one step and
\* leaves every row of another pipeline as it was; no step makes the
\* pipeline row Cancelled without all its jobs and steps being Cancelled
\* in the same state.
C18_CancelPipeline ==
  [][\A id \in PipelineIds :
       /\ cancel_pipeline(id) =>
            /\ DOMAIN pipelines' = DOMAIN pipelines
            /\ DOMAIN jobs' = DOMAIN jobs
            /\ DOMAIN steps' = DOMAIN steps
            /\ \A q \in DOMAIN pipelines :
                 IF q = id THEN pipelines'[q].execution_status = "Cancelled"
                 ELSE pipelines'[q] = pipelines[q]
            /\ \A j \in DOMAIN jobs :
                 IF jobs[j].pipeline_id = id THEN jobs'[j].status = "Cancelled"
                 ELSE jobs'[j] = jobs[j]
            /\ \A s \in DOMAIN steps :
                 IF steps[s].pipeline_id = id THEN steps'[s].status = "Cancelled"
                 ELSE steps'[s] = steps[s]
       /\ ( /\ id \in DOMAIN pipelines \cap DOMAIN pipelines'
            /\ pipelines[id].execution_status # "Cancelled"
            /\ pipelines'[id].execution_status = "Cancelled" ) =>
            /\ \A j \in DOMAIN jobs' : jobs'[j].pipeline_id = id => jobs'[j].status = "Cancelled"
            /\ \A s \in DOMAIN steps' :
                 steps'[s].pipeline_id = id => steps'[s].status = "Cancelled"]_vars

\* C18 witness: the second pipeline was cancelled while its first step was
\* Running: its row, both jobs and all three steps are Cancelled, and the
\* rows of the first pipeline are Completed.
C18_Witness ==
  /\ DOMAIN pipelines = {1, 2}
  /\ cancelWhen[1] = "never" /\ cancelWhen[2] = "running"
  /\ Status(1) = "Completed" /\ Status(2) = "Cancelled"
  /\ \A j \in JobsOf(1) : jobs[j].status = "Completed"
  /\ \A s \in StepsOfPipeline(1) : steps[s].status = "Completed"
  /\ Cardinality(JobsOf(2)) = 2 /\ \A j \in JobsOf(2) : jobs[j].status = "Cancelled"
  /\ Cardinality(StepsOfPipeline(2)) = 3
  /\ \A s \in StepsOfPipeline(2) : steps[s].status = "Cancelled"

\* The engine task of p is inside is_cancelled(), called by a fuzz step.
Polling(p) ==
  /\ task[p].pc \in {"exec", "poll_job", "poll_pipeline"}
  /\ CurStep(p).call = "icicle-fuzzer"

\* C19 (is_cancelled): when is_cancelled() returns true, one of the step's
\* row, its job's row and its pipeline's row is Cancelled at that moment;
\* when it returns false, none of them was Cancelled when the call began or
\* none of them is at the moment it returns.
C19_IsCancelled ==
  [][\A p \in PipelineIds :
       /\ (Polling(p) /\ task'[p].pc = "set_step_log") => AnyCancelled(CurStep(p).id)
       /\ (Polling(p) /\ task'[p].pc = "exec") =>
            ~polled'[p] \/ ~AnyCancelled(CurStep(p).id)]_vars

\* C19 witness: is_cancelled() has returned true to a fuzz step whose own
\* row is not Cancelled, and none of the three rows was Cancelled when the
\* call began.
C19_Witness ==
  \E p \in PipelineIds :
    /\ task[p].pc = "set_step_log" /\ CurStep(p).call = "icicle-fuzzer"
    /\ CurStep(p).id \in DOMAIN steps /\ steps[CurStep(p).id].status = "Running"
    /\ AnyCancelled(CurStep(p).id)
    /\ ~polled[p]

\* C20 (monotonic pipeline ids): every successful submit_pipeline returns an
\* id greater than every id an earlier submit_pipeline returned, also when
\* the earlier pipelines were deleted in between.
C20_MonotonicIds ==
  \A i, j \in 1..Len(issued) : i < j => issued[i].id < issued[j].id

\* C20 witness: the second submit_pipeline found the table empty, the first
\* pipeline having been deleted, and returned another id.
C20_Witness ==
  /\ Len(issued) = 2
  /\ issued[2].present = {}
  /\ issued[1].id \in deleted.pipelines
  /\ reply.kind = "Ok" /\ reply.id = issued[2].id

C22_ErrorNone == \A p \in PipelineIds : get_pipeline(p).error = "None"

\* C22 witness: get_pipeline answers for a Failed pipeline that has a
\* global-error row.
C22_Witness ==
  \E p \in DOMAIN pipelines :
    /\ get_pipeline(p).kind = "Ok" /\ get_pipeline(p).status = "Failed"
    /\ \E e \in 1..Len(global_errors) : global_errors[e].pipeline_id = p

\* C23 (Failed implies evidence): a Failed job has a Failed step, and a
\* Failed pipeline has a Failed job or a global-error row.
C23_FailedEvidence ==
  /\ \A j \in DOMAIN jobs :
       jobs[j].status = "Failed" =>
         \E s \in DOMAIN steps : steps[s].job_id = j /\ steps[s].status = "Failed"
  /\ \A p \in DOMAIN pipelines :
       Status(p) = "Failed" =>
         \/ \E j \in DOMAIN jobs : jobs[j].pipeline_id = p /\ jobs[j].status = "Failed"
         \/ \E e \in 1..Len(global_errors) : global_errors[e].pipeline_id = p

\* The places of the engine between a step's Running write and its terminal
\* write.
Executing == {"exec", "poll_job", "poll_pipeline", "set_step_log",
              "set_step_completed", "set_step_failed"}

\* C24 (Running only while executing): a step row is Running only while
\* the engine of its pipeline is between that step's Running write and its
\* terminal write; once the engine has ended, no step of the pipeline is
\* Running.
C24_RunningWhileExecuting ==
  \A s \in DOMAIN steps :
    steps[s].status = "Running" =>
      /\ task[steps[s].pipeline_id].pc \in Executing
      /\ CurStep(steps[s].pipeline_id).id = s

\* The places of the engine after a failed store call.
Fatal == {"set_step_failed", "set_job_failed", "set_pipeline_failed", "store_error", "done"}

\* C25 (a store failure in the engine is fatal and recorded): once a store
\* call of the engine has failed, the engine is on its way out: it sets no
\* job and no step to Running and starts no executor; and when store_error
\* then runs with the pipeline row present and is itself not failing, the
\* pipeline is Failed and has a global-error row carrying the store's error.
C25_StoreFailureFatal ==
  [][\A p \in PipelineIds :
       /\ task'[p].result = ErrStore => task'[p].pc \in Fatal
       /\ task[p].result = ErrStore =>
            /\ NoneSetRunning(p)
            /\ \A s \in DOMAIN steps \cap DOMAIN started' :
                 steps[s].pipeline_id = p => s \in DOMAIN started /\ started'[s] = started[s]
       /\ ( /\ task[p].pc = "store_error" /\ task[p].result = ErrStore
            /\ task'[p].pc = "done"
            /\ p \in DOMAIN pipelines
            /\ ~StoreErrorFault(p) ) =>
            /\ p \in DOMAIN pipelines' /\ pipelines'[p].execution_status = "Failed"
            /\ \E e \in 1..Len(global_errors') :
                 global_errors'[e] = [pipeline_id |-> p, error_message |-> ErrStore]]_vars

\* C25 witness: the engine ended after a failed store call made while a
\* step was Running; the pipeline is Failed with the store's error recorded.
C25_Witness ==
  \E p \in DOMAIN pipelines :
    /\ task[p].pc = "done" /\ task[p].result = ErrStore
    /\ Status(p) = "Failed"
    /\ \E s \in DOMAIN steps \cap DOMAIN started :
         steps[s].pipeline_id = p /\ started[s] = 1
    /\ \E e \in 1..Len(global_errors) :
         global_errors[e] = [pipeline_id |-> p, error_message |-> ErrStore]

\* The job rows and the step rows of pipeline id after this step.
JobsOfNew(id) == {j \in DOMAIN jobs' : jobs'[j].pipeline_id = id}
StepsOfNew(id) == {s \in DOMAIN steps' : steps'[s].pipeline_id = id}

\* C26 (setup_pipeline is all-or-nothing): a submission one of whose
\* inserts fails (it answers with the store's error) leaves the pipeline,
\* job and step tables as they were and starts no engine; a submission that
\* succeeds (it answers Ok with the new id) adds the pipeline row, one job
\* row per declared job and, for each job, one step row per declared step,
\* each carrying the ids of its job and of the pipeline, and nothing else.
\* Only submit_pipeline writes reply.
C26_AllOrNothing ==
  [][reply' # reply =>
       /\ reply'.error = ErrStore =>
            /\ pipelines' = pipelines /\ jobs' = jobs /\ steps' = steps /\ seq' = seq
            /\ task' = task
            /\ reply'.kind # "Ok"
       /\ reply'.kind = "Ok" =>
            LET id == reply'.id
                config == pipelines'[id].config
            IN /\ DOMAIN pipelines' = DOMAIN pipelines \cup {id} /\ id \notin DOMAIN pipelines
               /\ task'[id].pc = "start" /\ Len(task'[id].jobs) = Len(config)
               /\ JobsOfNew(id) = {task'[id].jobs[k] : k \in 1..Len(config)}
               /\ DOMAIN jobs' \ DOMAIN jobs = JobsOfNew(id)
               /\ Cardinality(JobsOfNew(id)) = Len(config)
               /\ DOMAIN steps' \ DOMAIN steps = StepsOfNew(id)
               /\ Cardinality(StepsOfNew(id)) = SumLen(config)
               /\ \A k \in 1..Len(config) :
                    LET ids == SortedSeq({s \in StepsOfNew(id) :
                                           steps'[s].job_id = task'[id].jobs[k]})
                    IN /\ Len(ids) = Len(config[k])
                       /\ \A i \in 1..Len(ids) :
                            /\ steps'[ids[i]].call = config[k][i].call
                            /\ steps'[ids[i]].args = config[k][i].args]_vars

\* C26 witness: a submission has failed in a store that holds the rows of
\* an earlier, successful one, and only those.
C26_Witness ==
  /\ reply.error = ErrStore
  /\ DOMAIN pipelines = {1} /\ seq.pipelines = 1
  /\ Cardinality(DOMAIN jobs) = Len(pipelines[1].config)
  /\ Cardinality(DOMAIN steps) = SumLen(pipelines[1].config)
  /\ Cardinality(DOMAIN steps) > 1

\* C27 (persisted Pending, returned Running): from a successful
\* setup_pipeline until the engine's first write, and as long as no cancel
\* or delete was issued, the pipeline row, every job row and every step row
\* of the new pipeline are Pending; the PipelineStatus that setup_pipeline
\* returns for it carries Running.
C27_PendingReturnedRunning ==
  \A p \in PipelineIds :
    (task[p].pc = "start" /\ ~Interfered(p)) =>
      /\ p \in DOMAIN pipelines /\ pipelines[p].execution_status = "Pending"
      /\ \A k \in 1..Len(task[p].jobs) :
           task[p].jobs[k] \in DOMAIN jobs /\ jobs[task[p].jobs[k]].status = "Pending"
      /\ \A j \in DOMAIN jobs : jobs[j].pipeline_id = p => jobs[j].status = "Pending"
      /\ \A s \in DOMAIN steps : steps[s].pipeline_id = p => steps[s].status = "Pending"
      /\ setup_pipeline_returns(pipelines[p].config).status = "Running"
      /\ get_pipeline(p).status = "Pending"

\* C27 witness: a pipeline of two jobs and three steps has just been
\* inserted.
C27_Witness ==
  \E p \in DOMAIN pipelines :
    /\ task[p].pc = "start" /\ ~Interfered(p)
    /\ Cardinality({j \in DOMAIN jobs : jobs[j].pipeline_id = p}) = 2
    /\ Cardinality({s \in DOMAIN steps : steps[s].pipeline_id = p}) = 3

\* C28 (no retry): no step row is set to Running twice, and no step's
\* executor runs twice (HelloStepExecutor logs its greeting once per run).
C28_NoRetry ==
  /\ \A s \in DOMAIN started : started[s] <= 1
  /\ \A s \in DOMAIN logged :
       Cardinality({i \in 1..Len(logged[s].messages) :
                      logged[s].messages[i] = "Hello, world!"}) <= 1

\* C28 witness: the engine has ended after three steps, each of which was
\* set to Running once.
C28_Witness ==
  \E p \in PipelineIds :
    /\ task[p].pc = "done"
    /\ Cardinality(DOMAIN started) = 3
    /\ \A s \in DOMAIN started : started[s] = 1

\* C29 (concurrent log calls are serialized): in the log buffer every
\* message is directly followed by its newline, once the call that wrote
\* it has returned; no bytes of another call come between them.
C29_LogSerialized ==
  \A i \in 1..Len(log_buffer) :
    log_buffer[i] \in Threads =>
      \/ i < Len(log_buffer) /\ log_buffer[i + 1] = "\n"
      \/ i = Len(log_buffer) /\ logger[log_buffer[i]].pc = "newline"

\* C30 (objects are not cascaded): delete_pipeline(id) leaves table
\* objects as it was: every (namespace, key) entry is still there with its
\* value, the entries written by the steps of the deleted pipeline too.
C30_ObjectsKept ==
  [][\A id \in PipelineIds : delete_pipeline(id) => objects' = objects]_vars

\* C30 witness: a pipeline whose fuzz step wrote to the corpus has been
\* deleted, and the object is in the store.
C30_Witness ==
  \E p \in deleted.pipelines :
    /\ p \notin DOMAIN pipelines
    /\ \E s \in deleted.steps : s \in DOMAIN logged /\ logged[s].messages = <<"tick">>
    /\ get_object(objects, "corpus", 0).kind = "Ok"

\* C31 (the global-error log is append-only): every step keeps the rows of
\* global_errors as they are and in place; the table grows by one row at a
\* time, and only when store_error runs for an engine that returned an
\* error.
C31_AppendOnly ==
  [][/\ Len(global_errors') >= Len(global_errors)
     /\ SubSeq(global_errors', 1, Len(global_errors)) = global_errors
     /\ global_errors' # global_errors =>
          \E p \in PipelineIds :
            /\ task[p].pc = "store_error" /\ task'[p].pc = "done"
            /\ global_errors' = Append(global_errors,
                                       [pipeline_id |-> p, error_message |-> task[p].result])]_vars

\* C31 witness: delete_pipeline has run against a pipeline that has a
\* global-error row (the foreign key was enforced); the row is still there.
C31_Witness ==
  \E e \in 1..Len(global_errors) :
    /\ global_errors[e].pipeline_id \in DOMAIN pipelines
    /\ touched[global_errors[e].pipeline_id]
    /\ foreign_keys = "on"

\* The fuzz loop of the engine's current step goes on beyond the rounds the
\* model follows: its executor has not returned.
FuzzingOn(p) ==
  /\ task[p].pc \in {"exec", "poll_job", "poll_pipeline"}
  /\ CurStep(p).call = "icicle-fuzzer"
  /\ ~CanFuzzOn(task[p])

\* Every spawned engine task ends, unless an executor does not return.
EngineEnds ==
  \A p \in PipelineIds : (task[p].pc # "none") ~> (task[p].pc = "done" \/ FuzzingOn(p))

\* C32 as stated (engine termination): every engine task ends, and an
\* ended engine whose pipeline row exists has left it Completed, Failed or
\* Cancelled.
C32_EndsTerminal ==
  /\ EngineEnds
  /\ [](\A p \in PipelineIds :
          (task[p].pc = "done" /\ p \in DOMAIN pipelines) => Status(p) \in Terminal)

\* C32 as amended: every engine task ends; when it ends, with the pipeline
\* row present and not on a store_error call that itself failed, the
\* pipeline is Completed, Failed or Cancelled, and it stays so.
C32_EndsTerminalUnlessUnrecorded ==
  /\ EngineEnds
  /\ [][\A p \in PipelineIds :
          /\ ( /\ task[p].pc # "done" /\ task'[p].pc = "done"
               /\ p \in DOMAIN pipelines'
               /\ ~StoreErrorFault(p) ) => pipelines'[p].execution_status \in Terminal
          /\ ( /\ task[p].pc = "done"
               /\ p \in DOMAIN pipelines /\ p \in DOMAIN pipelines'
               /\ Status(p) \in Terminal ) => pipelines'[p].execution_status \in Terminal]_vars

\* C32 witness: the engine of a two-job pipeline has ended on a store
\* failure that store_error recorded.
C32_Witness ==
  \E p \in DOMAIN pipelines :
    /\ task[p].pc = "done" /\ task[p].result = ErrStore /\ Status(p) = "Failed"
    /\ Len(task[p].jobs) = 2

\* C33 (validated pipelines find their executors): every step row carries
\* a registered call, the registry lookup of every step the engine runs
\* succeeds, and no engine ends with 'step executor not found'.
C33_ExecutorFound ==
  /\ \A s \in DOMAIN steps : steps[s].call \in Registry
  /\ \A p \in PipelineIds :
       /\ task[p].result # ErrExecutorNotFound
       /\ \A i \in 1..Len(task[p].steps) : task[p].steps[i].call \in Registry
  /\ \A e \in 1..Len(global_errors) : global_errors[e].error_message # ErrExecutorNotFound

\* C33 witness: the engine has run the three steps of a pipeline, the
\* last of them a hello step in the second job.
C33_Witness ==
  \E p \in DOMAIN pipelines :
    /\ task[p].pc = "done" /\ task[p].ji = 3
    /\ Cardinality(DOMAIN started) = 3
    /\ \A s \in DOMAIN steps : steps[s].status = "Completed"

\* C34 as stated (a Completed pipeline has only Completed jobs).
C34_CompletedJobs ==
  \A p \in DOMAIN pipelines :
    Status(p) = "Completed" => \A j \in JobsOf(p) : jobs[j].status = "Completed"

\* C34 as amended: the jobs of a Completed pipeline are Completed or
\* Cancelled, and all Completed when no cancel was issued on the pipeline
\* or on one of its jobs.
C34_CompletedOrCancelledJobs ==
  \A p \in DOMAIN pipelines :
    Status(p) = "Completed" =>
      /\ \A j \in JobsOf(p) : jobs[j].status \in {"Completed", "Cancelled"}
      /\ ~Interfered(p) => \A j \in JobsOf(p) : jobs[j].status = "Completed"

\* C34 witness: the engine has ended and left the pipeline Completed with
\* its first job Cancelled and its second job Completed.
C34_Witness ==
  \E p \in DOMAIN pipelines :
    /\ task[p].pc = "done" /\ Status(p) = "Completed" /\ Len(task[p].jobs) = 2
    /\ jobs[task[p].jobs[1]].status = "Cancelled"
    /\ jobs[task[p].jobs[2]].status = "Completed"

\* C35 (a Completed job has only Completed steps): whenever a job row is
\* Completed, every step row of that job is Completed.
C35_CompletedSteps ==
  \A j \in DOMAIN jobs :
    jobs[j].status = "Completed" => \A s \in StepsOfJob(j) : steps[s].status = "Completed"

\* The rows of pipeline b in tables P, J and S.
RowsOf(P, J, S, b) ==
  << [i \in DOMAIN P \cap {b} |-> P[i]],
     [j \in {i \in DOMAIN J : J[i].pipeline_id = b} |-> J[j]],
     [s \in {i \in DOMAIN S : S[i].pipeline_id = b} |-> S[s]] >>

\* A step of the engine task of pipeline a, or a cancel_pipeline(a), a
\* delete_pipeline(a) or a cancel_job of one of a's jobs.
ActsOn(a) ==
  \/ Engine(a)
  \/ cancel_pipeline(a)
  \/ delete_pipeline(a)
  \/ \E j \in JobsOf(a) : cancel_job(j)

\* C36 (pipeline isolation): a write of the engine of pipeline a, a
\* cancel_pipeline(a), a cancel_job on a job of a and a delete_pipeline(a)
\* leave the pipeline row, the job rows and the step rows of every other
\* pipeline as they are, status and log included.
C36_Isolation ==
  [][\A a \in PipelineIds :
       ActsOn(a) =>
         \A b \in PipelineIds \ {a} :
           RowsOf(pipelines', jobs', steps', b) = RowsOf(pipelines, jobs, steps, b)]_vars

\* C36 witness: pipeline a was cancelled while the engine of pipeline b,
\* which no cancel or delete touched, is executing its step.
C36_Witness ==
  \E a, b \in DOMAIN pipelines :
    /\ a # b
    /\ cancelWhen[a] # "never" /\ Status(a) = "Cancelled" /\ task[a].pc \notin {"none", "done"}
    /\ ~Interfered(b) /\ Status(b) = "Running" /\ task[b].pc = "set_step_log"
    /\ \E s \in StepsOfPipeline(b) : steps[s].status = "Running"

\* The engine of job j's pipeline has been spawned and has not yet written
\* Running to job j.
NotReached(j) ==
  LET p == jobs[j].pipeline_id
  IN /\ task[p].pc \notin {"none", "done", "store_error"}
     /\ \E k \in 1..Len(task[p].jobs) :
          /\ task[p].jobs[k] = j
          /\ \/ task[p].pc = "start"
             \/ k > task[p].ji
             \/ k = task[p].ji /\ task[p].pc \in {"check_pipeline", "read_job", "set_job_running"}

\* C37 (cancel_job before the engine reaches the job): a job that
\* cancel_job set to Cancelled while it was Pending, in a pipeline that was
\* not cancelled, stays Cancelled, and none of its steps is set to Running.
C37_CancelledBeforeReached ==
  [][\A j \in DOMAIN jobs \cap DOMAIN jobs' :
       ( /\ jobs[j].status = "Cancelled"
         /\ cancelWhen[jobs[j].pipeline_id] = "never"
         /\ NotReached(j) ) =>
         /\ jobs'[j].status = "Cancelled"
         /\ \A s \in StepsOfJob(j) \cap DOMAIN steps' : steps'[s].status # "Running"]_vars

C39_CorpusIds ==
  /\ corpus.disabled_ids \subseteq corpus.cached_ids
  /\ count >= 0
  /\ count = Cardinality({id \in CorpusIds : get(id).kind = "Ok"})
  /\ count_all = count + count_disabled
  /\ Len(added) = Len(corpus.testcases)
  /\ \A i \in 1..Len(added) : added[i] = i - 1
  /\ corpus.cached_ids \subseteq 0..(Len(corpus.testcases) - 1)

\* C39 witness: three testcases were added, the first was removed, the
\* second is disabled, the third can be fetched.
C39_Witness ==
  /\ Len(corpus.testcases) = 3 /\ added = <<0, 1, 2>>
  /\ corpus.cached_ids = {1, 2} /\ corpus.disabled_ids = {1}
  /\ count = 1 /\ get(2).kind = "Ok" /\ get(0).kind = "KeyNotFound"

====
